---- MODULE Spec2Model ----
(***************************************************************************)
(* Model of the job orchestration pipeline of the Geofy imagery API:       *)
(* app/main.py (capture_imagery, process_imagery_job, get_job_status,      *)
(* get_imagery) and the parts of app/services.py it calls.                 *)
(*                                                                         *)
(* process_imagery_job is an "async def" that Starlette's BackgroundTasks  *)
(* awaits on the event loop.  Every call it makes before the webhook send  *)
(* is synchronous, so the job holds the event loop (loopOwner) from its    *)
(* first statement on.  The synchronous route handlers (get_job_status,    *)
(* get_imagery) run on worker threads and read whatever is committed.      *)
(*                                                                         *)
(* db holds the committed rows only.  Between two commits the session of   *)
(* a job holds no unflushed change at any point where an exception can be  *)
(* raised, so an action is the code from one commit (or external call) to  *)
(* the next.  Commits themselves are taken to succeed.                     *)
(***************************************************************************)
EXTENDS Integers, Sequences, FiniteSets, TLC

VARIABLES db, pc, loc, files, trace, loopOwner, env, wh

vars == <<db, pc, loc, files, trace, loopOwner, env, wh>>

-----------------------------------------------------------------------------
(* Bounds of the model *)

MaxJobs == 1

MaxTokens == 3

\* the most dates a run is given when the per-date loop is followed alone
MaxDates == 8

-----------------------------------------------------------------------------
(* Optional values: None is the empty set, Some(x) the singleton *)

None == {}

Some(x) == {x}

-----------------------------------------------------------------------------
(* app/models.py *)

QUEUED == "queued"

PROCESSING == "processing"

COMPLETED == "completed"

FAILED == "failed"

JobStatus == {QUEUED, PROCESSING, COMPLETED, FAILED}

\* the ids the model has room for: one more than the requests of Spec
Jobs == 1..(MaxJobs + 1)

\* Column defaults of a Job row as capture_imagery creates it
Job(callback_url) ==
  [ status        |-> QUEUED,
    progress      |-> 0,
    callback_url  |-> callback_url,
    imagery_data  |-> None,
    ai_analysis   |-> None,
    error_message |-> None,
    completed_at  |-> None ]

-----------------------------------------------------------------------------
(* Text: a str is a sequence of one-character strings *)

Digits == <<"0", "1", "2", "3", "4", "5", "6", "7", "8", "9">>

\* code point order of the characters that occur in dates ('-' < '/' < '0')
Ord(c) ==
  CASE c = "-" -> 0
    [] c = "/" -> 1
    [] OTHER   -> 1 + CHOOSE i \in 1..10 : Digits[i] = c

DigitVal(c) == (CHOOSE i \in 1..10 : Digits[i] = c) - 1

\* str(y) of a four-digit year
StrOfYear(y) ==
  << Digits[((y \div 1000) % 10) + 1], Digits[((y \div 100) % 10) + 1],
     Digits[((y \div 10) % 10) + 1],   Digits[(y % 10) + 1] >>

\* s in d (substring test)
Contains(d, s) ==
  \E i \in 0..(Len(d) - Len(s)) : \A k \in 1..Len(s) : d[i + k] = s[k]

\* lexicographic order of str
RECURSIVE StrLess(_, _)
StrLess(a, b) ==
  IF b = <<>> THEN FALSE
  ELSE IF a = <<>> THEN TRUE
  ELSE IF Ord(Head(a)) # Ord(Head(b)) THEN Ord(Head(a)) < Ord(Head(b))
  ELSE StrLess(Tail(a), Tail(b))

\* match.replace('/', '-')
ReplaceSlash(s) == [i \in 1..Len(s) |-> IF s[i] = "/" THEN "-" ELSE s[i]]

\* date.split('-')[0]
RECURSIVE SplitHead(_)
SplitHead(s) ==
  IF s = <<>> \/ Head(s) = "-" THEN <<>> ELSE <<Head(s)>> \o SplitHead(Tail(s))

\* int(digits)
RECURSIVE IntOf(_)
IntOf(s) ==
  IF s = <<>> THEN 0 ELSE 10 * IntOf(SubSeq(s, 1, Len(s) - 1)) + DigitVal(s[Len(s)])

\* sorted(list(set(dates)))
RECURSIVE SortedSeq(_)
SortedSeq(S) ==
  IF S = {} THEN <<>>
  ELSE LET m == CHOOSE x \in S : \A y \in S \ {x} : StrLess(x, y)
       IN  <<m>> \o SortedSeq(S \ {m})

Range(s) == {s[i] : i \in 1..Len(s)}

-----------------------------------------------------------------------------
(* app/services.py: ImageryService.  The outcome of every external call    *)
(* (the CLI tool, rasterio, the media host, the inference engine, the file *)
(* system) is an argument; a result is [raised, value, error].             *)

Return(v) == [raised |-> FALSE, value |-> v, error |-> <<>>]

\* raise Exception(msg); a message is the list of its parts, "" is <<>>
Raise(msg) == [raised |-> TRUE, value |-> <<>>, error |-> msg]

\* except Exception as e: raise Exception(f"{prefix}: {str(e)}")
Rewrap(prefix, r) == IF r.raised THEN Raise(<<prefix>> \o r.error) ELSE r

\* variant: sorted(..., reverse=True), the newest date first
_parse_availability_output_newest_first(tokens) ==
  LET asc == SortedSeq({ReplaceSlash(t) : t \in Range(tokens)})
      dates == [i \in 1..Len(asc) |-> asc[Len(asc) + 1 - i]]
  IN  Rewrap("Failed to parse availability dates",
             IF dates = <<>>
             THEN Raise(<<"No imagery dates found for this location">>)
             ELSE Return(dates))

\* tokens: what re.findall(r'\d{4}/\d{2}/\d{2}') finds, in output order
_parse_availability_output(tokens) ==
  LET dates == SortedSeq({ReplaceSlash(t) : t \in Range(tokens)})
  IN  Rewrap("Failed to parse availability dates",
             IF dates = <<>>
             THEN Raise(<<"No imagery dates found for this location">>)
             ELSE Return(dates))

\* run: [kind |-> "ok" | "nonzero" | "timeout", tokens |-> the dates printed]
check_availability(run) ==
  IF run.kind = "timeout"
  THEN Raise(<<"Availability check timed out after 60 seconds">>)
  ELSE Rewrap("Failed to check availability",
              IF run.kind = "nonzero"
              THEN Raise(<<"Command failed with return code">>)
              ELSE _parse_availability_output(run.tokens))

\* f"{job_id}_{date}.tif" in temp_dir
TempFile(job_id, date, ext) == [job |-> job_id, date |-> date, ext |-> ext]

\* run: [kind |-> "ok" | "nonzero" | "timeout", wrote |-> the tool left the file]
\* value is the path; fs is the temp directory after the call
download_imagery(date, job_id, run, fs) ==
  LET output_path == TempFile(job_id, date, "tif")
      after == IF run.wrote THEN fs \cup {output_path} ELSE fs
      r == IF run.kind = "timeout"
           THEN Raise(<<"Download timed out after 300 seconds">>)
           ELSE Rewrap("Failed to download imagery",
                  IF run.kind = "nonzero"
                  THEN Raise(<<"Download failed with return code">>)
                  ELSE IF output_path \notin after
                  THEN Raise(<<"Output file not created">>)
                  ELSE Return(output_path))
  IN  [res |-> r, fs |-> after]

\* ok: rasterio and PIL succeed and the PNG is written
convert_geotiff_to_png(tif_path, ok, fs) ==
  LET png_path == [tif_path EXCEPT !.ext = "png"]
      r == Rewrap("Failed to convert GeoTIFF",
             IF tif_path \notin fs
             THEN Raise(<<"Input file does not exist">>)
             ELSE IF ~ok THEN Raise(<<"rasterio or PIL error">>)
             ELSE Return(png_path))
  IN  [res |-> r, fs |-> IF r.raised THEN fs ELSE fs \cup {png_path}]

\* folder geofy/{job_id}, public_id imagery_{year}
PublicId(job_id, year) == [folder |-> job_id, imagery |-> year]

upload_to_cloudinary(image_path, job_id, year, ok, fs) ==
  Rewrap("Failed to upload to Cloudinary",
    IF image_path \notin fs THEN Raise(<<"Image file does not exist">>)
    ELSE IF ~ok THEN Raise(<<"cloudinary error">>)
    ELSE Return([ original  |-> <<"secure_url", PublicId(job_id, year)>>,
                  optimized |-> <<"q_auto,f_auto", PublicId(job_id, year)>>,
                  thumbnail |-> <<"w_400,h_300,c_fill", PublicId(job_id, year)>> ]))

\* what the inference call and json.loads can do: the call raises, the text
\* is not JSON, the text is JSON but not an object (a list, a number, null),
\* it is an object without all the keys, it is the object asked for
AnalyzerOutcomes ==
  {"exception", "invalid_json", "not_object", "missing_keys", "well_formed"}

required_keys == {"changes_detected", "timeline", "summary"}

\* the keys of the object json.loads returns
ParsedKeys(outcome) ==
  IF outcome = "well_formed" THEN required_keys
  ELSE IF outcome = "missing_keys" THEN {"summary"}
  ELSE {}

\* the value the response gives a key
ResponseValue(key) ==
  IF key = "summary" THEN <<"assessment">>
  ELSE IF key = "timeline" THEN <<"observation">>
  ELSE <<"change">>

\* analysis.get(key, default)
Get(analysis, key, default) ==
  IF key \in DOMAIN analysis THEN analysis[key] ELSE default

\* variant: the keys of the parsed object are not checked, it is returned
\* as it is
AnalysisUnchecked(image_paths, outcome, fs) ==
  LET images == {p \in Range(image_paths) : p \in fs}
      analysis == [k \in ParsedKeys(outcome) |-> ResponseValue(k)]
  IN  IF outcome = "exception" THEN Raise(<<"inference call failed">>)
      ELSE IF images = {}
      THEN Return([ error |-> <<"No valid images found for analysis">>,
                    changes_detected |-> <<>>, timeline |-> <<>>,
                    summary |-> <<"Analysis unavailable - no images">> ])
      ELSE IF outcome = "invalid_json"
      THEN Return([ error |-> <<"AI response was not valid JSON">>,
                    raw_response |-> <<"text">>,
                    changes_detected |-> <<"Unable to parse AI response">>,
                    timeline |-> <<>>,
                    summary |-> <<"AI analysis completed but response format was invalid">> ])
      ELSE IF outcome = "not_object"
      THEN Raise(<<"TypeError or AttributeError">>)
      ELSE Return(analysis)

\* the body of the try block, lines 337-432.  A parsed value that is not an
\* object makes `key not in analysis`, analysis.get or analysis[key] raise.
Analysis(image_paths, outcome, fs) ==
  LET images == {p \in Range(image_paths) : p \in fs}
      analysis == [k \in ParsedKeys(outcome) |-> ResponseValue(k)]
      missing_keys == required_keys \ DOMAIN analysis
  IN  IF outcome = "exception" THEN Raise(<<"inference call failed">>)
      ELSE IF images = {}
      THEN Return([ error |-> <<"No valid images found for analysis">>,
                    changes_detected |-> <<>>, timeline |-> <<>>,
                    summary |-> <<"Analysis unavailable - no images">> ])
      ELSE IF outcome = "invalid_json"
      THEN Return([ error |-> <<"AI response was not valid JSON">>,
                    raw_response |-> <<"text">>,
                    changes_detected |-> <<"Unable to parse AI response">>,
                    timeline |-> <<>>,
                    summary |-> <<"AI analysis completed but response format was invalid">> ])
      ELSE IF outcome = "not_object"
      THEN Raise(<<"TypeError or AttributeError">>)
      ELSE IF missing_keys # {}
      THEN Return([ error |-> <<"AI response missing required fields">>,
                    changes_detected |-> Get(analysis, "changes_detected", <<>>),
                    timeline |-> Get(analysis, "timeline", <<>>),
                    summary |-> Get(analysis, "summary", <<"Incomplete analysis">>) ])
      ELSE Return(analysis)

\* try: ... except Exception as e: return {...}; the text of e, which no
\* caller looks at, is kept as the one part "str(e)"
analyze_with_gemini(image_paths, outcome, fs) ==
  LET r == Analysis(image_paths, outcome, fs)
  IN  IF r.raised
      THEN Return([ error |-> <<"AI analysis failed", "str(e)">>,
                    changes_detected |-> <<>>, timeline |-> <<>>,
                    summary |-> <<"Analysis unavailable due to error">> ])
      ELSE r

\* str(uuid.uuid4()): the ids are texts of one length; here two digits
JobId(job_id) ==
  <<Digits[((job_id \div 10) % 10) + 1], Digits[(job_id % 10) + 1]>>

\* the name of a file of the temp directory: f"{job_id}_{date}.tif" or .png
FileName(f) == JobId(f.job) \o <<"_">> \o f.date \o <<".", f.ext>>

StartsWith(name, prefix) ==
  Len(prefix) <= Len(name) /\ SubSeq(name, 1, Len(prefix)) = prefix

\* variant: the pattern is "*", every file of the directory
GlobEverything(job_id, fs) == fs

\* self.temp_dir.glob(f"{job_id}_*")
Glob(job_id, fs) ==
  {f \in fs : StartsWith(FileName(f), JobId(job_id) \o <<"_">>)}

\* the files of S in the order the loop visits them, taken to be name order
RECURSIVE InNameOrder(_)
InNameOrder(S) ==
  IF S = {} THEN <<>>
  ELSE LET m == CHOOSE x \in S : \A y \in S \ {x} :
                  \/ x.job < y.job
                  \/ x.job = y.job /\ StrLess(x.date, y.date)
                  \/ x.job = y.job /\ x.date = y.date /\ x.ext = "png"
       IN  <<m>> \o InNameOrder(S \ {m})

\* variant: no try/except inside the method, a failed unlink is raised
cleanup_temp_files_raising(job_id, unlinks, fs) ==
  LET found == InNameOrder(Glob(job_id, fs))
      gone == {found[i] : i \in 1..unlinks}
  IN  [raised |-> unlinks < Len(found), fs |-> fs \ gone]

\* unlinks: how many unlink calls succeed; when that is fewer than the files
\* found, the next unlink raises, which ends the loop, and the exception is
\* caught inside the method
cleanup_temp_files(job_id, unlinks, fs) ==
  LET found == InNameOrder(Glob(job_id, fs))
      gone == {found[i] : i \in 1..unlinks}
  IN  [raised |-> FALSE, fs |-> fs \ gone]

-----------------------------------------------------------------------------
(* app/services.py: WebhookService.send_webhook(url, payload) is a static  *)
(* method with exactly these two parameters.                               *)

send_webhook_params == {"url", "payload"}

\* binding the arguments of a call: an unknown keyword raises TypeError
\* when the call expression is evaluated, before any request is made
CallSendWebhook(args) ==
  IF args \subseteq send_webhook_params
  THEN Return(<<"coroutine">>)
  ELSE Raise(<<"send_webhook() got an unexpected keyword argument">>)

\* max_retries = 3
max_retries == 3

\* what one client.post can meet: a response with a status code, or an
\* exception of httpx (the connection fails, the 30 s timeout passes)
AttemptOutcomes ==
  {[kind |-> "status", code |-> c] : c \in {200, 299, 300, 500}}
    \cup {[kind |-> k, code |-> 0] : k \in {"network_error", "timeout"}}

Succeeds(outcome) == outcome.kind = "status" /\ outcome.code < 300

\* a target is what it does to the first, second and third request
Targets == [1..max_retries -> AttemptOutcomes]

\* settings.WEBHOOK_SIGNING_SECRET: Optional[str]
Secrets == {None, Some("secret")}

\* client.post(url, json=payload): no headers are passed, httpx sets the
\* content type of the JSON body; the settings are not read
PostHeaders(secret) == {"content-type"}

\* wait_time = 2 ** attempt
WaitTime(attempt) == 2 ^ attempt

Step(next, res, wait) == [next |-> next, res |-> res, wait |-> wait]

\* variant: a response of 300 or above ends the delivery at once
AfterAttemptStatusFinal(attempt, outcome) ==
  IF outcome.kind = "status"
  THEN IF outcome.code < 300 THEN Step("return", Return(TRUE), 0)
       ELSE Step("return", Return(FALSE), 0)
  ELSE IF attempt = max_retries - 1 THEN Step("return", Return(FALSE), 0)
       ELSE Step("sleep", Return(FALSE), WaitTime(attempt))

\* variant: the exception of the last attempt is raised again
AfterAttemptReraising(attempt, outcome) ==
  IF outcome.kind = "status"
  THEN IF outcome.code < 300 THEN Step("return", Return(TRUE), 0)
       ELSE IF attempt + 1 < max_retries THEN Step("post", Return(FALSE), 0)
       ELSE Step("return", Return(FALSE), 0)
  ELSE IF attempt = max_retries - 1
       THEN Step("return", Raise(<<outcome.kind>>), 0)
       ELSE Step("sleep", Return(FALSE), WaitTime(attempt))

\* what the loop body does once the request of this attempt (counted from
\* 0) has met its outcome.  A status below 300 returns True; another status
\* prints the body and goes round the loop, or leaves it after the last
\* attempt to return False; an exception returns False on the last attempt
\* and otherwise sleeps before going round.
AfterAttempt(attempt, outcome) ==
  IF outcome.kind = "status"
  THEN IF outcome.code < 300 THEN Step("return", Return(TRUE), 0)
       ELSE IF attempt + 1 < max_retries THEN Step("post", Return(FALSE), 0)
       ELSE Step("return", Return(FALSE), 0)
  ELSE IF attempt = max_retries - 1 THEN Step("return", Return(FALSE), 0)
       ELSE Step("sleep", Return(FALSE), WaitTime(attempt))

-----------------------------------------------------------------------------
(* The external tool's answers used by the model *)

\* date tokens the availability listing can contain (YYYY/MM/DD)
TokenUniverse ==
  { <<"2","0","1","7","/","1","2","/","3","1">>,
    <<"2","0","1","8","/","0","1","/","0","1">>,
    <<"2","0","1","8","/","0","6","/","1","5">>,
    <<"2","0","2","0","/","0","6","/","1","5">>,
    <<"2","0","2","6","/","0","1","/","0","1">> }

\* the tokens of a location with little imagery: one date outside the
\* window and one inside
FewTokens ==
  { <<"2","0","1","7","/","1","2","/","3","1">>,
    <<"2","0","1","8","/","0","1","/","0","1">> }

RECURSIVE SeqsUpTo(_, _)
SeqsUpTo(S, n) ==
  IF n = 0 THEN {<<>>}
  ELSE LET shorter == SeqsUpTo(S, n - 1)
       IN  shorter \cup {Append(q, x) : q \in shorter, x \in S}

AvailabilityRuns ==
  {[kind |-> "ok", tokens |-> t] : t \in SeqsUpTo(TokenUniverse, MaxTokens)}
    \cup {[kind |-> k, tokens |-> <<>>] : k \in {"nonzero", "timeout"}}

\* what check_availability can return or raise on these runs
AvailabilityResults == {check_availability(run) : run \in AvailabilityRuns}

FewAvailabilityResults ==
  {check_availability(run) : run \in
     {[kind |-> "ok", tokens |-> t] : t \in SeqsUpTo(FewTokens, MaxTokens)}
       \cup {[kind |-> k, tokens |-> <<>>] : k \in {"nonzero", "timeout"}}}

\* the environment of a run: how many capture requests the clients send,
\* whether the location of each has much imagery or little, and what the
\* inference engine can answer
Environment(requests, imagery, analyzer) ==
  [requests |-> requests, imagery |-> imagery, analyzer |-> analyzer]

\* the imagery of the locations asked for, by request: the first location
\* has much imagery and the later ones little, or all have little
MuchFirst == [j \in Jobs |-> IF j = 1 THEN "much" ELSE "few"]

FewEverywhere == [j \in Jobs |-> "few"]

AvailabilityResultsIn(e, j) ==
  IF e.imagery[j] = "much" THEN AvailabilityResults ELSE FewAvailabilityResults

DownloadRuns ==
  {[kind |-> "ok", wrote |-> w] : w \in BOOLEAN}
    \cup {[kind |-> k, wrote |-> FALSE] : k \in {"nonzero", "timeout"}}

CallbackUrls == {None, Some("https://client.example/hook")}

-----------------------------------------------------------------------------
(* app/main.py: the rows process_imagery_job commits *)

\* job.status = PROCESSING; job.progress = 10
StartProcessing(job) == [job EXCEPT !.status = PROCESSING, !.progress = 10]

\* job.progress = 20
AvailabilityProgress(job) == [job EXCEPT !.progress = 20]

\* variant: the window starts one year early, range(2017, 2026)
InTargetYearsFrom2017(d) == \E y \in 2017..2025 : Contains(d, StrOfYear(y))

\* variant: the window ends one year early, range(2018, 2025)
InTargetYearsTo2024(d) == \E y \in 2018..2024 : Contains(d, StrOfYear(y))

\* target_years = range(2018, 2026); any(str(y) in d for y in target_years)
InTargetYears(d) == \E y \in 2018..2025 : Contains(d, StrOfYear(y))

\* [d for d in available_dates if ...]
dates_to_download(available_dates) == SelectSeq(available_dates, InTargetYears)

\* variant: the loop is given the 80 points up to 100 instead of 60
LoopProgressOver80(idx, n) == 20 + ((80 * (idx + 1)) \div n)

\* int(20 + ((idx + 1) * progress_per_year)), progress_per_year = 60 / n.
\* The double arithmetic gives the same integer as this floor for n < 60.
LoopProgress(idx, n) == 20 + ((60 * (idx + 1)) \div n)

\* the dict appended to results
Descriptor(date, urls) ==
  [ year         |-> IntOf(SplitHead(date)),
    captureDate  |-> date,
    imageUrl     |-> urls.original,
    optimizedUrl |-> urls.optimized,
    thumbnailUrl |-> urls.thumbnail ]

\* job.progress = 85
AnalysisProgress(job) == [job EXCEPT !.progress = 85]

\* variant: the status is committed without the results
SaveStatusOnly(job, results, ai_analysis) ==
  [job EXCEPT !.status = COMPLETED, !.progress = 100,
              !.completed_at = Some("utcnow")]

\* the "Save results" block
SaveResults(job, results, ai_analysis) ==
  [job EXCEPT !.imagery_data = Some([images |-> results]),
              !.ai_analysis  = Some(ai_analysis),
              !.status       = COMPLETED,
              !.progress     = 100,
              !.completed_at = Some("utcnow")]

\* variant: the handler also resets the progress
MarkFailedResetProgress(job, e) ==
  [job EXCEPT !.status = FAILED, !.error_message = Some(e), !.progress = 0]

\* variant: the handler records the message and leaves the status
MarkFailedOnlyMessage(job, e) == [job EXCEPT !.error_message = Some(e)]

\* variant: the handler sets the status and drops the message
MarkFailedNoMessage(job, e) == [job EXCEPT !.status = FAILED]

\* the except block: job.status = FAILED; job.error_message = str(e)
MarkFailed(job, e) ==
  [job EXCEPT !.status = FAILED, !.error_message = Some(e)]

\* does an exception raised by the cleanup call reach the except block
CleanupPropagates(r) == r.raised

\* variant: no try/except around the send, the exception reaches the handler
WebhookErrorEscapes(r) == r.raised

\* try/except Exception around the await of send_webhook: a raised
\* exception is printed and dropped
WebhookErrorPropagates(r) == FALSE

-----------------------------------------------------------------------------
(* State *)

NoLocals ==
  [ available_dates |-> <<>>, dates |-> <<>>, idx |-> 0, results |-> <<>>, tif |-> None, png |-> None,
    ai |-> None, e |-> None ]

\* a call made by job j on its k-th date (k = 0: not in the per-date loop)
Event(op, j, k, info) == [op |-> op, job |-> j, k |-> k, info |-> info]

\* no send_webhook invocation is being followed
NoSend ==
  [ at |-> "idle", target |-> <<>>, attempt |-> 0, log |-> <<>>,
    result |-> None, secret |-> None ]

\* the state after the module is imported and the tables are created
Start ==
  /\ db = <<>>
  /\ pc = [j \in Jobs |-> "none"]
  /\ loc = [j \in Jobs |-> NoLocals]
  /\ files = {}
  /\ trace = {}
  /\ loopOwner = 0

Init ==
  /\ Start
  /\ env = Environment(MaxJobs, MuchFirst, AnalyzerOutcomes)
  /\ wh = NoSend

\* raise inside the try block: control moves to the except block with e
Throw(j, msg) ==
  /\ pc' = [pc EXCEPT ![j] = "except"]
  /\ loc' = [loc EXCEPT ![j].e = Some(msg)]

Running(j, at) == loopOwner = j /\ pc[j] = at

\* the request a call of send_webhook is sure to make once its arguments are
\* bound: the first pass of its loop posts before anything else
FirstPost(r, j, event) ==
  IF r.raised THEN {} ELSE {Event("POST", j, 1, event)}

-----------------------------------------------------------------------------
(* app/main.py: capture_imagery *)

\* variant: the handler awaits process_imagery_job's first commit itself
\* before it answers
capture_imagery_started(callback_url) ==
  /\ loopOwner = 0
  /\ Len(db) < env.requests
  /\ LET id == Len(db) + 1
     IN  /\ db' = Append(db, StartProcessing(Job(callback_url)))
         /\ pc' = [pc EXCEPT ![id] = "scheduled"]
  /\ UNCHANGED <<loc, files, trace, loopOwner>>
  /\ UNCHANGED <<env, wh>>

\* lines 172-191: the row is added and committed, the task is handed to
\* BackgroundTasks, which runs it after the response has been sent
capture_imagery(callback_url) ==
  /\ loopOwner = 0
  /\ Len(db) < env.requests
  /\ LET id == Len(db) + 1
     IN  /\ db' = Append(db, Job(callback_url))
         /\ pc' = [pc EXCEPT ![id] = "scheduled"]
  /\ UNCHANGED <<loc, files, trace, loopOwner>>
  /\ UNCHANGED <<env, wh>>

-----------------------------------------------------------------------------
(* app/main.py: process_imagery_job, one action per commit or external call *)

\* variant: process_imagery_job is a plain def, which BackgroundTasks runs
\* in a worker thread whatever the event loop is doing
BeginInThread(j) ==
  /\ pc[j] = "scheduled"
  /\ loopOwner' = j
  /\ IF j \in DOMAIN db
     THEN /\ db' = [db EXCEPT ![j] = StartProcessing(@)]
          /\ pc' = [pc EXCEPT ![j] = "parse"]
     ELSE /\ pc' = [pc EXCEPT ![j] = "finally"]
          /\ UNCHANGED db
  /\ UNCHANGED <<loc, files, trace>>
  /\ UNCHANGED <<env, wh>>

\* lines 34-46
Begin(j) ==
  /\ loopOwner = 0
  /\ pc[j] = "scheduled"
  /\ loopOwner' = j
  /\ IF j \in DOMAIN db
     THEN /\ db' = [db EXCEPT ![j] = StartProcessing(@)]
          /\ pc' = [pc EXCEPT ![j] = "parse"]
     ELSE /\ pc' = [pc EXCEPT ![j] = "finally"]
          /\ UNCHANGED db
  /\ UNCHANGED <<loc, files, trace>>
  /\ UNCHANGED <<env, wh>>

\* lines 48-53: the coordinates passed validation, so the parse succeeds
ParseCoordinates(j) ==
  /\ Running(j, "parse")
  /\ db' = [db EXCEPT ![j] = AvailabilityProgress(@)]
  /\ pc' = [pc EXCEPT ![j] = "availability"]
  /\ UNCHANGED <<loc, files, trace, loopOwner>>
  /\ UNCHANGED <<env, wh>>

\* line 54
CheckAvailability(j) ==
  /\ Running(j, "availability")
  /\ \E r \in AvailabilityResultsIn(env, j) :
       IF r.raised THEN Throw(j, r.error)
       ELSE /\ loc' = [loc EXCEPT ![j].available_dates = r.value]
            /\ pc' = [pc EXCEPT ![j] = "filter"]
  /\ UNCHANGED <<db, files, trace, loopOwner>>
  /\ UNCHANGED <<env, wh>>

\* lines 56-65; available_dates is not read after line 58 and is dropped
FilterDates(j) ==
  /\ Running(j, "filter")
  /\ LET dates == dates_to_download(loc[j].available_dates)
     IN  IF dates = <<>>
         THEN /\ pc' = [pc EXCEPT ![j] = "except"]
              /\ loc' = [loc EXCEPT
                   ![j].available_dates = <<>>,
                   ![j].e = Some(<<"No imagery available for 2018-2025">>)]
         ELSE /\ loc' = [loc EXCEPT ![j].available_dates = <<>>,
                                    ![j].dates = dates]
              /\ pc' = [pc EXCEPT ![j] = "download"]
  /\ UNCHANGED <<db, files, trace, loopOwner>>
  /\ UNCHANGED <<env, wh>>

\* lines 69-71
Download(j) ==
  /\ Running(j, "download")
  /\ LET date == loc[j].dates[loc[j].idx + 1]
     IN  \E run \in DownloadRuns :
              LET c == download_imagery(date, j, run, files)
              IN  /\ files' = c.fs
                  /\ trace' = trace \cup {Event("download", j, loc[j].idx + 1,
                        IF run.kind = "ok" /\ run.wrote THEN "ok" ELSE "failed")}
                  /\ IF c.res.raised THEN Throw(j, c.res.error)
                     ELSE /\ loc' = [loc EXCEPT ![j].tif = Some(c.res.value)]
                          /\ pc' = [pc EXCEPT ![j] = "convert"]
  /\ UNCHANGED <<db, loopOwner>>
  /\ UNCHANGED <<env, wh>>

\* line 74
Convert(j) ==
  /\ Running(j, "convert")
  /\ \E tif_path \in loc[j].tif, ok \in BOOLEAN :
       LET c == convert_geotiff_to_png(tif_path, ok, files)
       IN  /\ files' = c.fs
           /\ trace' = trace \cup {Event("convert", j, loc[j].idx + 1,
                                           IF ok THEN "ok" ELSE "failed")}
           /\ IF c.res.raised THEN Throw(j, c.res.error)
              ELSE /\ loc' = [loc EXCEPT ![j].png = Some(c.res.value)]
                   /\ pc' = [pc EXCEPT ![j] = "upload"]
  /\ UNCHANGED <<db, loopOwner>>
  /\ UNCHANGED <<env, wh>>

\* lines 77-90
Upload(j) ==
  /\ Running(j, "upload")
  /\ \E png_path \in loc[j].png, ok \in BOOLEAN :
       LET date == loc[j].dates[loc[j].idx + 1]
           year == IntOf(SplitHead(date))
           r == upload_to_cloudinary(png_path, j, year, ok, files)
           n == Len(loc[j].dates)
       IN  /\ trace' = trace \cup {Event("upload", j, loc[j].idx + 1,
                                           IF ok THEN "ok" ELSE "failed")}
           /\ IF r.raised
              THEN Throw(j, r.error) /\ UNCHANGED db
              ELSE /\ loc' = [loc EXCEPT
                        ![j].results = Append(@, Descriptor(date, r.value)),
                        ![j].idx = @ + 1,
                        ![j].tif = None,
                        ![j].png = None]
                   /\ db' = [db EXCEPT ![j].progress = LoopProgress(loc[j].idx, n)]
                   /\ pc' = [pc EXCEPT ![j] =
                               IF loc[j].idx + 1 < n THEN "download" ELSE "analysis"]
  /\ UNCHANGED <<files, loopOwner>>
  /\ UNCHANGED <<env, wh>>

\* lines 93-94
BeforeAnalysis(j) ==
  /\ Running(j, "analysis")
  /\ db' = [db EXCEPT ![j] = AnalysisProgress(@)]
  /\ pc' = [pc EXCEPT ![j] = "analyze"]
  /\ UNCHANGED <<loc, files, trace, loopOwner>>
  /\ UNCHANGED <<env, wh>>

\* lines 98-103
Analyze(j) ==
  /\ Running(j, "analyze")
  /\ \E outcome \in env.analyzer :
       LET image_paths == [i \in 1..Len(loc[j].dates) |->
                             TempFile(j, loc[j].dates[i], "png")]
           r == analyze_with_gemini(image_paths, outcome, files)
       IN  IF r.raised
           THEN Throw(j, r.error)
           ELSE /\ loc' = [loc EXCEPT ![j].ai = Some(r.value)]
                /\ pc' = [pc EXCEPT ![j] = "save"]
  /\ trace' = trace \cup {Event("analyze", j, 0, "")}
  /\ UNCHANGED <<db, files, loopOwner>>
  /\ UNCHANGED <<env, wh>>

\* lines 106-111
Save(j) ==
  /\ Running(j, "save")
  /\ \E ai_analysis \in loc[j].ai :
       db' = [db EXCEPT ![j] = SaveResults(@, loc[j].results, ai_analysis)]
  /\ pc' = [pc EXCEPT ![j] = "cleanup"]
  /\ UNCHANGED <<loc, files, trace, loopOwner>>
  /\ UNCHANGED <<env, wh>>

\* line 114
Cleanup(j) ==
  /\ Running(j, "cleanup")
  /\ \E unlinks \in 0..Cardinality(Glob(j, files)) :
       LET c == cleanup_temp_files(j, unlinks, files)
       IN  /\ files' = c.fs
           /\ IF CleanupPropagates(c)
              THEN Throw(j, <<"unlink failed">>)
              ELSE pc' = [pc EXCEPT ![j] = "webhook"] /\ UNCHANGED loc
  /\ trace' = trace \cup {Event("cleanup", j, 0, "")}
  /\ UNCHANGED <<db, loopOwner>>
  /\ UNCHANGED <<env, wh>>

\* variant: no try/except around the send of lines 125-128, what the call
\* raises reaches the failure handler
SendCompletedUnguarded(j) ==
  /\ Running(j, "webhook")
  /\ IF db[j].callback_url # None
     THEN LET r == CallSendWebhook({"url", "payload", "event"})
          IN  /\ trace' = trace \cup
                   {Event("send_webhook",  j, 0, "job.completed")}
                   \cup FirstPost(r, j, "job.completed")
              /\ IF r.raised
                 THEN Throw(j, r.error)
                 ELSE pc' = [pc EXCEPT ![j] = "finally"] /\ UNCHANGED loc
     ELSE /\ pc' = [pc EXCEPT ![j] = "finally"]
          /\ UNCHANGED <<loc, trace>>
  /\ UNCHANGED <<db, files, loopOwner>>
  /\ UNCHANGED <<env, wh>>

\* lines 117-128: the call passes url, payload and the keyword event
SendCompleted(j) ==
  /\ Running(j, "webhook")
  /\ IF db[j].callback_url # None
     THEN LET r == CallSendWebhook({"url", "payload", "event"})
          IN  /\ trace' = trace \cup
                   {Event("send_webhook",  j, 0, "job.completed")}
                   \cup FirstPost(r, j, "job.completed")
              /\ IF r.raised /\ WebhookErrorPropagates(r)
                 THEN Throw(j, r.error)
                 ELSE pc' = [pc EXCEPT ![j] = "finally"] /\ UNCHANGED loc
     ELSE /\ pc' = [pc EXCEPT ![j] = "finally"]
          /\ UNCHANGED <<loc, trace>>
  /\ UNCHANGED <<db, files, loopOwner>>
  /\ UNCHANGED <<env, wh>>

\* variant: the handler stores the descriptors gathered so far
ExceptKeepingPartial(j) ==
  /\ Running(j, "except")
  /\ \E e \in loc[j].e :
       db' = [db EXCEPT ![j] =
                [MarkFailed(@, e) EXCEPT
                   !.imagery_data = Some([images |-> loc[j].results])]]
  /\ pc' = [pc EXCEPT ![j] = "failure_webhook"]
  /\ UNCHANGED <<loc, files, trace, loopOwner>>
  /\ UNCHANGED <<env, wh>>

\* variant: the row is fetched without the filter on the id, the first row
\* of the table is marked
ExceptFirstRow(j) ==
  /\ Running(j, "except")
  /\ \E e \in loc[j].e :
       db' = IF db # <<>> THEN [db EXCEPT ![1] = MarkFailed(@, e)] ELSE db
  /\ pc' = [pc EXCEPT ![j] = "failure_webhook"]
  /\ UNCHANGED <<loc, files, trace, loopOwner>>
  /\ UNCHANGED <<env, wh>>

\* variant: the failure handler removes the working files of the job
ExceptCleaningUp(j) ==
  /\ Running(j, "except")
  /\ \E e \in loc[j].e :
       db' = IF j \in DOMAIN db THEN [db EXCEPT ![j] = MarkFailed(@, e)] ELSE db
  /\ files' = cleanup_temp_files(j, Cardinality(Glob(j, files)), files).fs
  /\ trace' = trace \cup {Event("cleanup", j, 0, "")}
  /\ pc' = [pc EXCEPT ![j] = "failure_webhook"]
  /\ UNCHANGED <<loc, loopOwner>>
  /\ UNCHANGED <<env, wh>>

\* lines 130-138
Except(j) ==
  /\ Running(j, "except")
  /\ \E e \in loc[j].e :
       db' = IF j \in DOMAIN db THEN [db EXCEPT ![j] = MarkFailed(@, e)] ELSE db
  /\ pc' = [pc EXCEPT ![j] = "failure_webhook"]
  /\ UNCHANGED <<loc, files, trace, loopOwner>>
  /\ UNCHANGED <<env, wh>>

\* lines 140-150: the call is made the same way as on the success path and
\* whatever it raises is printed and dropped by the try/except
SendFailed(j) ==
  /\ Running(j, "failure_webhook")
  /\ IF db[j].callback_url # None
     THEN LET r == CallSendWebhook({"url", "payload", "event"})
          IN  trace' = trace \cup {Event("send_webhook",  j, 0, "job.failed")}
                             \cup FirstPost(r, j, "job.failed")
     ELSE UNCHANGED trace
  /\ pc' = [pc EXCEPT ![j] = "finally"]
  /\ UNCHANGED <<db, loc, files, loopOwner>>
  /\ UNCHANGED <<env, wh>>

\* lines 152-153: db.close(); the coroutine returns and its locals are gone
Finally(j) ==
  /\ Running(j, "finally")
  /\ pc' = [pc EXCEPT ![j] = "done"]
  /\ loc' = [loc EXCEPT ![j] = NoLocals]
  /\ loopOwner' = 0
  /\ UNCHANGED <<db, files, trace>>
  /\ UNCHANGED <<env, wh>>

-----------------------------------------------------------------------------
(* app/main.py: the query routes, evaluated on the committed rows *)

get_job_status(job_id) ==
  IF job_id \notin DOMAIN db
  THEN [status_code |-> 404, detail |-> "Job not found"]
  ELSE [ status_code |-> 200,
         status      |-> db[job_id].status,
         progress    |-> db[job_id].progress,
         completedAt |-> db[job_id].completed_at,
         error       |-> db[job_id].error_message ]

\* variant: the status of the row is not looked at
get_imagery_any_status(job_id) ==
  IF job_id \notin DOMAIN db
  THEN [status_code |-> 404, detail |-> "Job not found"]
  ELSE [ status_code |-> 200,
         images      |-> IF db[job_id].imagery_data # None
                         THEN (CHOOSE x \in db[job_id].imagery_data : TRUE).images
                         ELSE <<>>,
         aiAnalysis  |-> db[job_id].ai_analysis ]

get_imagery(job_id) ==
  IF job_id \notin DOMAIN db
  THEN [status_code |-> 404, detail |-> "Job not found"]
  ELSE IF db[job_id].status # COMPLETED
  THEN [status_code |-> 400, detail |-> "Job not completed"]
  ELSE [ status_code |-> 200,
         images      |-> IF db[job_id].imagery_data # None
                         THEN (CHOOSE x \in db[job_id].imagery_data : TRUE).images
                         ELSE <<>>,
         aiAnalysis  |-> db[job_id].ai_analysis ]

-----------------------------------------------------------------------------

Next ==
  \/ \E cb \in CallbackUrls : capture_imagery(cb)
  \/ \E j \in Jobs :
       \/ Begin(j)
       \/ ParseCoordinates(j)
       \/ CheckAvailability(j)
       \/ FilterDates(j)
       \/ Download(j)
       \/ Convert(j)
       \/ Upload(j)
       \/ BeforeAnalysis(j)
       \/ Analyze(j)
       \/ Save(j)
       \/ Cleanup(j)
       \/ SendCompleted(j)
       \/ Except(j)
       \/ SendFailed(j)
       \/ Finally(j)

Spec == Init /\ [][Next]_vars

\* one request more than Spec, for locations with little imagery and with
\* an inference engine that answers well or not at all
InitPair ==
  /\ Start
  /\ env = Environment(MaxJobs + 1, FewEverywhere, {"well_formed", "exception"})
  /\ wh = NoSend

SpecPair == InitPair /\ [][Next]_vars

-----------------------------------------------------------------------------
(* app/services.py: one invocation of WebhookService.send_webhook(url,      *)
(* payload) against a target, followed request by request                   *)

Sending(target, secret) ==
  [ at |-> "post", target |-> target, attempt |-> 0, log |-> <<>>,
    result |-> None, secret |-> secret ]

Logged(op, attempt, wait, headers) ==
  [op |-> op, attempt |-> attempt, wait |-> wait, headers |-> headers]

InitWebhook ==
  /\ Start
  /\ env = Environment(0, FewEverywhere, {})
  /\ \E target \in Targets : \E secret \in Secrets :
       wh = Sending(target, secret)

\* lines 523-534: one pass of the try block
Post ==
  /\ wh.at = "post"
  /\ LET outcome == wh.target[wh.attempt + 1]
         step == AfterAttempt(wh.attempt, outcome)
         log == Append(wh.log,
                  Logged("POST", wh.attempt, 0, PostHeaders(wh.secret)))
     IN  wh' = IF step.next = "return"
               THEN [wh EXCEPT !.log = log, !.at = "returned",
                               !.result = Some(step.res)]
               ELSE IF step.next = "sleep"
               THEN [wh EXCEPT !.log = log, !.at = "sleep"]
               ELSE [wh EXCEPT !.log = log, !.attempt = @ + 1]
  /\ UNCHANGED <<db, pc, loc, files, trace, loopOwner, env>>

\* lines 541-544: await asyncio.sleep(wait_time), then the next pass
Backoff ==
  /\ wh.at = "sleep"
  /\ wh' = [wh EXCEPT
              !.log = Append(@, Logged("sleep", wh.attempt,
                                       WaitTime(wh.attempt), {})),
              !.attempt = @ + 1,
              !.at = "post"]
  /\ UNCHANGED <<db, pc, loc, files, trace, loopOwner, env>>

NextWebhook == Post \/ Backoff

SpecWebhook == InitWebhook /\ [][NextWebhook]_vars

-----------------------------------------------------------------------------
(* app/main.py: the per-date loop of one run, lines 63-90, followed from    *)
(* the point where the resolver has given the run n dates of the window     *)

\* the i-th of the dates: two a year from 2018 on, in ascending order
LoopDate(i) ==
  StrOfYear(2018 + ((i - 1) \div 2))
    \o <<"-", "0", IF i % 2 = 1 THEN "1" ELSE "7", "-", "0", "1">>

\* the run has committed progress 20 and is about to enter the loop
InitLoop ==
  /\ \E cb \in CallbackUrls :
       db = <<AvailabilityProgress(StartProcessing(Job(cb)))>>
  /\ pc = [j \in Jobs |-> IF j = 1 THEN "download" ELSE "none"]
  /\ \E n \in 1..MaxDates :
       loc = [j \in Jobs |->
                IF j = 1
                THEN [NoLocals EXCEPT !.dates = [i \in 1..n |-> LoopDate(i)]]
                ELSE NoLocals]
  /\ files = {}
  /\ trace = {}
  /\ loopOwner = 1
  /\ env = Environment(1, MuchFirst, AnalyzerOutcomes)
  /\ wh = NoSend

NextLoop == \E j \in Jobs : Download(j) \/ Convert(j) \/ Upload(j)

SpecLoop == InitLoop /\ [][NextLoop]_vars

-----------------------------------------------------------------------------
(* app/main.py: the filter of lines 56-61, followed from the point where    *)
(* check_availability has returned its sorted dates                         *)

\* well-formed dates the resolver can return: the edges of the window, and
\* dates outside it whose month or day holds digits of a year of the window
ResolvedUniverse ==
  { <<"1","8","2","0","-","1","0","-","2","0">>,
    <<"2","0","1","7","-","1","2","-","3","1">>,
    <<"2","0","1","8","-","0","1","-","0","1">>,
    <<"2","0","2","0","-","0","2","-","1","8">>,
    <<"2","0","2","5","-","1","2","-","3","1">>,
    <<"2","0","2","6","-","0","1","-","0","1">>,
    <<"2","2","0","1","-","0","8","-","2","0">> }

\* the run has committed progress 20 and holds the dates of the resolver
InitFilter ==
  /\ \E cb \in CallbackUrls :
       db = <<AvailabilityProgress(StartProcessing(Job(cb)))>>
  /\ pc = [j \in Jobs |-> IF j = 1 THEN "filter" ELSE "none"]
  /\ \E S \in SUBSET ResolvedUniverse \ {{}} :
       loc = [j \in Jobs |->
                IF j = 1
                THEN [NoLocals EXCEPT !.available_dates = SortedSeq(S)]
                ELSE NoLocals]
  /\ files = {}
  /\ trace = {}
  /\ loopOwner = 1
  /\ env = Environment(1, MuchFirst, AnalyzerOutcomes)
  /\ wh = NoSend

NextFilter == \E j \in Jobs : FilterDates(j)

SpecFilter == InitFilter /\ [][NextFilter]_vars

-----------------------------------------------------------------------------
(* Properties *)

Terminal == {COMPLETED, FAILED}

Created == DOMAIN db

Images(j) ==
  IF db[j].imagery_data = None THEN <<>>
  ELSE (CHOOSE x \in db[j].imagery_data : TRUE).images

Calls(j, op) == {ev \in trace : ev.job = j /\ ev.op = op}

\* the except block has run for job j
Handled(j) == pc[j] \in {"failure_webhook", "finally", "done"}

\* C1: the committed status of a job only moves QUEUED -> PROCESSING ->
\* COMPLETED or QUEUED -> PROCESSING -> FAILED: a row is created QUEUED, a
\* COMPLETED or FAILED row keeps its status, and no step takes QUEUED to
\* COMPLETED or FAILED.
C1_StatusTransitions ==
  [][\A j \in DOMAIN db' :
       IF j \notin Created THEN db'[j].status = QUEUED
       ELSE \/ db'[j].status = db[j].status
            \/ db[j].status = QUEUED /\ db'[j].status = PROCESSING
            \/ db[j].status = PROCESSING /\ db'[j].status \in Terminal]_vars

\* a job has run to its return as COMPLETED after its webhook call raised
C1_Witness ==
  \E j \in Created :
    /\ pc[j] = "done"
    /\ db[j].status = COMPLETED
    /\ Calls(j, "send_webhook") # {}

\* C2: the committed progress of a job never decreases, the row written by
\* the failure handler included.
C2_ProgressMonotonic ==
  [][\A j \in Created : db[j].progress <= db'[j].progress]_vars

\* a job failed on its third date, after two dates had advanced the progress
C2_Witness ==
  \E j \in Created :
    /\ db[j].status = FAILED
    /\ db[j].progress = 60
    /\ \E ev \in trace : ev.job = j /\ ev.k = 3 /\ ev.info = "failed"

\* C3: an execution of process_imagery_job that has returned has left its
\* job COMPLETED or FAILED, whatever the stages did.
C3_ReturnsTerminal ==
  \A j \in Created : pc[j] = "done" => db[j].status \in Terminal

\* an execution has returned after a failed upload on its second date
C3_Witness ==
  \E j \in Created :
    /\ pc[j] = "done"
    /\ db[j].status = FAILED
    /\ Event("upload", j, 2, "failed") \in trace

\* C4: completed_at is set if and only if the status is COMPLETED or FAILED.
C4_CompletedAtIffTerminal ==
  \A j \in Created : (db[j].completed_at # None) <=> (db[j].status \in Terminal)

\* C5: progress is 100 if and only if the status is COMPLETED.
C5_Progress100IffCompleted ==
  \A j \in Created : (db[j].progress = 100) <=> (db[j].status = COMPLETED)

\* a job is still PROCESSING with all three of its dates acquired
C5_Witness ==
  \E j \in Created :
    /\ db[j].status = PROCESSING
    /\ Event("upload", j, 3, "ok") \in trace
    /\ pc[j] = "analysis"

\* C6: error_message is a non-empty text if and only if the status is
\* FAILED, and the text is the one of the exception that was caught.
C6_ErrorIffFailed ==
  \A j \in Created :
    /\ (\E text \in db[j].error_message : text # <<>>) <=> (db[j].status = FAILED)
    /\ db[j].error_message = None <=> (db[j].status # FAILED)
    /\ pc[j] \in {"failure_webhook", "finally"} => db[j].error_message = loc[j].e

\* the handler has just stored the text of a conversion failure
C6_Witness ==
  \E j \in Created :
    /\ pc[j] = "failure_webhook"
    /\ db[j].status = FAILED
    /\ \E text \in db[j].error_message : Head(text) = "Failed to convert GeoTIFF"

\* C7: once a row is committed COMPLETED no later step changes it: not a
\* failed unlink during cleanup, not an exception of the webhook send.
C7_CompletedRowFrozen ==
  [][\A j \in Created : db[j].status = COMPLETED => db'[j] = db[j]]_vars

\* a COMPLETED job has returned after a cleanup that left files behind and a
\* webhook call that raised
C7_Witness ==
  \E j \in Created :
    /\ pc[j] = "done"
    /\ db[j].status = COMPLETED
    /\ Glob(j, files) # {}
    /\ Event("cleanup", j, 0, "") \in trace
    /\ Event("send_webhook", j, 0, "job.completed") \in trace

\* C8: a COMPLETED row always carries a non-empty descriptor list and an
\* analysis object, so get_imagery never answers with an empty result set.
C8_CompletedHasResults ==
  \A j \in Created :
    /\ db[j].status = COMPLETED
         => /\ db[j].imagery_data # None
            /\ Images(j) # <<>>
            /\ db[j].ai_analysis # None
    /\ get_imagery(j).status_code = 200
         => /\ get_imagery(j).images # <<>>
            /\ get_imagery(j).aiAnalysis # None

\* get_imagery answers for a job completed with a degraded analysis
C8_Witness ==
  \E j \in Created :
    /\ get_imagery(j).status_code = 200
    /\ Len(get_imagery(j).images) = 2
    /\ \E a \in get_imagery(j).aiAnalysis : "error" \in DOMAIN a

YearOf(date) == IntOf(SplitHead(date))

NoneInWindow(dates) == \A i \in 1..Len(dates) : YearOf(dates[i]) \notin 2018..2025

NoImageryText == <<"No imagery available for 2018-2025">>

\* the run of job j raised the "no imagery" exception
NoImagery(j) == loc[j].e = Some(NoImageryText) \/ db[j].error_message = Some(NoImageryText)

\* C9: when the resolver returns dates none of which has a year in
\* 2018..2025, the run raises "No imagery available", the job ends FAILED
\* with that text, no descriptor is stored, no download, conversion or
\* upload is started and send_webhook is not called with job.completed.
C9_NoEligibleDates ==
  /\ [][\A j \in Jobs :
          (pc[j] = "filter" /\ pc'[j] # "filter" /\ NoneInWindow(loc[j].available_dates))
            => pc'[j] = "except" /\ loc'[j].e = Some(NoImageryText)]_vars
  /\ [](\A j \in Created :
          NoImagery(j) =>
            /\ db[j].imagery_data = None
            /\ Calls(j, "download") \cup Calls(j, "convert") \cup Calls(j, "upload") = {}
            /\ Event("send_webhook", j, 0, "job.completed") \notin trace
            /\ db[j].status # COMPLETED
            /\ Handled(j) => /\ db[j].status = FAILED
                             /\ db[j].error_message = Some(NoImageryText))

\* a job with a callback URL has returned FAILED for want of eligible dates
C9_Witness ==
  \E j \in Created :
    /\ pc[j] = "done"
    /\ db[j].callback_url # None
    /\ db[j].error_message = Some(NoImageryText)

\* C10: when the download, conversion or upload of the k-th date fails, the
\* job ends FAILED with no descriptor stored at all, no call is made for a
\* later date and the analyzer is not run.
C10_AllOrNothing ==
  \A j \in Created :
    \A ev \in Calls(j, "download") \cup Calls(j, "convert") \cup Calls(j, "upload") :
      ev.info = "failed" =>
        /\ pc[j] \in {"except", "failure_webhook", "finally", "done"}
        /\ Handled(j) => db[j].status = FAILED
        /\ db[j].status # COMPLETED
        /\ db[j].imagery_data = None
        /\ Calls(j, "analyze") = {}
        /\ \A later \in trace : later.job = j => later.k <= ev.k

\* a job has returned after the upload of its second date failed, the first
\* date having been acquired
C10_Witness ==
  \E j \in Created :
    /\ pc[j] = "done"
    /\ Event("upload", j, 1, "ok") \in trace
    /\ Event("upload", j, 2, "failed") \in trace

\* the dates of a list whose year is in 2018..2025, in the order of the list
Eligible(dates) ==
  SelectSeq(dates, LAMBDA d : YearOf(d) \in 2018..2025)

Ascending(dates) ==
  \A i \in 1..(Len(dates) - 1) : StrLess(dates[i], dates[i + 1])

\* every date the run of job j was given has been uploaded
AllAcquired(j) ==
  \A k \in 1..Len(loc[j].dates) : Event("upload", j, k, "ok") \in trace

\* C11: the dates a run is given are exactly the resolver's dates with a
\* year in 2018..2025, oldest first; and a run that was given N >= 1 dates
\* and acquired every one of them ends COMPLETED with progress 100, an
\* analysis, and exactly N descriptors, the i-th one for the i-th date.
C11_AllDatesSucceed ==
  /\ [][\A j \in Created :
         pc[j] = "filter" /\ pc'[j] = "download"
           => /\ loc'[j].dates = Eligible(loc[j].available_dates)
              /\ Ascending(loc'[j].dates)]_vars
  /\ [](\A j \in Created :
         pc[j] = "finally" /\ loc[j].dates # <<>> /\ AllAcquired(j)
           => /\ db[j].status = COMPLETED
              /\ db[j].progress = 100
              /\ db[j].ai_analysis # None
              /\ Len(Images(j)) = Len(loc[j].dates)
              /\ \A i \in 1..Len(Images(j)) :
                    /\ Images(j)[i].captureDate = loc[j].dates[i]
                    /\ Images(j)[i].year = YearOf(loc[j].dates[i]))

\* a run given three dates acquired all three and is about to return
C11_Witness ==
  \E j \in Created :
    /\ pc[j] = "finally"
    /\ Len(loc[j].dates) = 3
    /\ AllAcquired(j)
    /\ db[j].status = COMPLETED

\* the png paths main.py hands to the analyzer for the dates of job j
ImagePaths(j) ==
  [i \in 1..Len(loc[j].dates) |-> TempFile(j, loc[j].dates[i], "png")]

\* a result of the analyzer that came back and has the three keys
Usable(r) == ~r.raised /\ required_keys \subseteq DOMAIN r.value

\* C12: the analysis step cannot abort a job.  Where a run is about to call
\* analyze_with_gemini, the call returns a result with the keys
\* changes_detected, timeline and summary whatever the inference call does
\* (it raises, its text is not JSON, it is JSON but no object, it is an
\* object without all keys, it is the object asked for) and whichever of the
\* image files exist; the step after the call is never the failure handler;
\* and the analysis a COMPLETED job stores has the three keys.
C12_AnalysisNeverAborts ==
  /\ [](\A j \in Created :
         pc[j] = "analyze"
           => \A outcome \in AnalyzerOutcomes :
                \A missing \in SUBSET Range(ImagePaths(j)) :
                  Usable(analyze_with_gemini(ImagePaths(j), outcome,
                                             files \ missing)))
  /\ [][\A j \in Created : pc[j] = "analyze" => pc'[j] \in {"analyze", "save"}]_vars
  /\ [](\A j \in Created :
         db[j].status = COMPLETED
           => \A a \in db[j].ai_analysis : required_keys \subseteq DOMAIN a)

\* a job completed although the analyzer fell back on its degraded result
C12_Witness ==
  \E j \in Created :
    /\ db[j].status = COMPLETED
    /\ pc[j] = "done"
    /\ \E a \in db[j].ai_analysis :
         "error" \in DOMAIN a /\ a.error = <<"AI analysis failed", "str(e)">>

\* C13: when the run of a job that was submitted with a callback URL has
\* ended, a POST to that URL was made for the event of the job's state:
\* job.completed for a COMPLETED job, job.failed for a FAILED one.
C13_DeliveryAttempted ==
  \A j \in Created :
    pc[j] = "done" /\ db[j].callback_url # None
      => /\ db[j].status = COMPLETED
              => Event("POST", j, 1, "job.completed") \in trace
         /\ db[j].status = FAILED
              => Event("POST", j, 1, "job.failed") \in trace

\* the requests an invocation of send_webhook has made so far
Posts == {i \in 1..Len(wh.log) : wh.log[i].op = "POST"}

Returned == wh.at = "returned"

Answer(code) == [kind |-> "status", code |-> code]

\* the target answers 500 to the first n-1 requests and 200 to the n-th
FailsUntil(n) ==
  /\ \A i \in 1..(n - 1) : wh.target[i] = Answer(500)
  /\ wh.target[n] = Answer(200)

\* C14: against a target that answers 500 to the first N-1 requests and 200
\* to the N-th, for every N from 1 to max_retries, send_webhook returns True
\* having made exactly N requests; and no request is ever made after a
\* request that was answered with a status below 300.
C14_SucceedsOnAttemptN ==
  /\ \A n \in 1..max_retries :
       FailsUntil(n) /\ Returned
         => /\ wh.result = Some(Return(TRUE))
            /\ Cardinality(Posts) = n
  /\ \A i \in Posts :
       Succeeds(wh.target[wh.log[i].attempt + 1])
         => i = Len(wh.log) /\ wh.at = "returned"

\* the target answered 500, 500, 200 and the call has returned
C14_Witness ==
  /\ FailsUntil(max_retries)
  /\ Returned
  /\ Cardinality(Posts) = max_retries

\* no request to the target is answered with a status below 300
AlwaysFails == \A i \in 1..max_retries : ~Succeeds(wh.target[i])

\* C15: whatever the target does to each request (status below 300, status
\* 300 or above, network error, timeout), send_webhook makes at most
\* max_retries requests and what it hands back is a boolean, not an
\* exception; against a target that fails every request it makes exactly
\* max_retries requests and returns False.
C15_ReturnsBoolean ==
  /\ Cardinality(Posts) <= max_retries
  /\ Returned
       => /\ wh.result # None
          /\ \A r \in wh.result : ~r.raised /\ r.value \in BOOLEAN
  /\ Returned /\ AlwaysFails
       => /\ wh.result = Some(Return(FALSE))
          /\ Cardinality(Posts) = max_retries

\* a status of 500, a network error and a timeout: the call returned False
C15_Witness ==
  /\ wh.target[1] = Answer(500)
  /\ wh.target[2].kind = "network_error"
  /\ wh.target[3].kind = "timeout"
  /\ Returned
  /\ wh.result = Some(Return(FALSE))

\* C16: every request that failed (network error, timeout, or a status of
\* 300 or above) and was not the last one allowed is followed, before the
\* next request, by a wait of 2^attempt seconds, attempt counted from 0; and
\* nothing is waited for after the last request allowed.
C16_BackoffAfterEveryFailure ==
  \A i \in Posts :
    LET attempt == wh.log[i].attempt
    IN  /\ ~Succeeds(wh.target[attempt + 1]) /\ attempt < max_retries - 1
             /\ i < Len(wh.log)
          => wh.log[i + 1] = Logged("sleep", attempt, 2 ^ attempt, {})
        /\ attempt = max_retries - 1 => i = Len(wh.log)

\* C17: when a signing secret is configured, every request send_webhook
\* makes carries a timestamp header and a message authentication code header.
C17_SignedWhenSecretSet ==
  wh.secret # None
    => \A i \in Posts :
         {"timestamp", "signature"} \subseteq wh.log[i].headers

\* C18: a file leaves the temp directory only in the cleanup of the job it
\* belongs to, and its name starts with that job's id followed by "_"; the
\* cleanup of a job deletes no file of another job.
C18_CleanupOwnFilesOnly ==
  [][\A f \in files \ files' :
       \E a \in Created :
         /\ pc[a] = "cleanup" /\ pc'[a] # "cleanup"
         /\ f.job = a
         /\ StartsWith(FileName(f), JobId(a) \o <<"_">>)]_vars

\* the cleanup of job a has just deleted all of a's files while files of
\* another job, left behind by its failed run, lie in the directory
C18_Witness ==
  \E a \in Created : \E b \in Created \ {a} :
    /\ pc[a] = "webhook"
    /\ Event("upload", a, 1, "ok") \in trace
    /\ \A f \in files : f.job # a
    /\ \E f \in files : f.job = b

\* C19: a step of the run of job a leaves the row of every other job as it
\* was: status, progress, error, results and completed_at.
C19_OtherRowsUnchanged ==
  [][\A a \in Jobs : \A b \in Created \ {a} :
       pc'[a] # pc[a] => db'[b] = db[b]]_vars

\* the failure handler of job a has just run while job b is COMPLETED
C19_Witness ==
  \E a \in Created : \E b \in Created \ {a} :
    /\ pc[a] = "failure_webhook"
    /\ db[a].status = FAILED
    /\ pc[b] = "done"
    /\ db[b].status = COMPLETED

\* C20: the result query answers 200 with the stored descriptors and
\* analysis for a COMPLETED job and for no other; for a job that is QUEUED,
\* PROCESSING or FAILED it answers 400 "Job not completed", and for an id
\* that no job has it answers 404 "Job not found".
C20_ResultsOnlyWhenCompleted ==
  \A job_id \in Jobs :
    LET r == get_imagery(job_id)
    IN  IF job_id \notin Created
        THEN r = [status_code |-> 404, detail |-> "Job not found"]
        ELSE IF db[job_id].status \in {QUEUED, PROCESSING, FAILED}
        THEN r = [status_code |-> 400, detail |-> "Job not completed"]
        ELSE /\ db[job_id].status = COMPLETED
             /\ r.status_code = 200
             /\ r.images = Images(job_id)
             /\ r.aiAnalysis = db[job_id].ai_analysis

\* a FAILED job whose run got as far as uploading one image, asked for its
\* results, next to an id that no job has
C20_Witness ==
  \E j \in Created : \E unknown \in Jobs \ Created :
    /\ db[j].status = FAILED
    /\ Event("upload", j, 1, "ok") \in trace
    /\ get_imagery(j).status_code = 400
    /\ get_imagery(unknown).status_code = 404

\* C21: a step that adds a job row adds exactly one, QUEUED with progress 0,
\* and schedules the run of that id and of no other; it leaves the other
\* rows, the temp directory and the record of pipeline calls as they were.
\* The run of an id is scheduled by that step only: no step puts a job back
\* to "scheduled".
C21_OneQueuedJobPerRequest ==
  [][/\ db' # db /\ Len(db') # Len(db)
         => /\ Len(db') = Len(db) + 1
            /\ SubSeq(db', 1, Len(db)) = db
            /\ db'[Len(db')].status = QUEUED
            /\ db'[Len(db')].progress = 0
            /\ pc[Len(db')] = "none" /\ pc'[Len(db')] = "scheduled"
            /\ \A j \in Jobs \ {Len(db')} : pc'[j] = pc[j]
            /\ UNCHANGED <<loc, files, trace, loopOwner>>
     /\ \A j \in Jobs :
          pc'[j] = "scheduled" /\ pc[j] # "scheduled"
            => j = Len(db') /\ Len(db') = Len(db) + 1]_vars

\* a request has been answered: its row is QUEUED with progress 0 and its
\* run is scheduled, not begun
C21_Witness ==
  \E j \in Created :
    /\ pc[j] = "scheduled"
    /\ db[j].status = QUEUED
    /\ db[j].progress = 0
    /\ files = {} /\ trace = {}

\* round(num / den) as Python rounds: to the nearest integer, a half to the
\* even neighbour
Round(num, den) ==
  LET q == num \div den
      r == num % den
  IN  IF 2 * r < den THEN q
      ELSE IF 2 * r > den THEN q + 1
      ELSE IF q % 2 = 0 THEN q ELSE q + 1

\* C22: the progress committed right after the k-th of the N dates of a run
\* has been acquired is 20 + round(60 * k / N).
C22_ProgressRounded ==
  [][\A j \in Created :
       pc[j] = "upload" /\ loc'[j].idx = loc[j].idx + 1
         => db'[j].progress =
              20 + Round(60 * loc'[j].idx, Len(loc[j].dates))]_vars

InWindow(date) == YearOf(date) \in 2018..2025

\* s is t with some elements left out, the others in the order of t
RECURSIVE IsSubsequence(_, _)
IsSubsequence(s, t) ==
  IF s = <<>> THEN TRUE
  ELSE IF t = <<>> THEN FALSE
  ELSE IF Head(s) = Head(t) THEN IsSubsequence(Tail(s), Tail(t))
  ELSE IsSubsequence(s, Tail(t))

\* C23: the dates the filter hands to acquisition are the resolved dates
\* with a year in 2018..2025, in resolved order: none of them has a year
\* outside the window, no resolved date with a year inside it is missing,
\* and when no resolved date is in the window the run raises instead.
C23_WindowFilter ==
  [][\A j \in Created :
       pc[j] = "filter" /\ pc'[j] # "filter"
         => LET resolved == loc[j].available_dates
                handed == loc'[j].dates
            IN  /\ \A d \in Range(handed) : InWindow(d)
                /\ \A d \in Range(resolved) : InWindow(d) => d \in Range(handed)
                /\ IsSubsequence(handed, resolved)
                /\ pc'[j] = IF \E d \in Range(resolved) : InWindow(d)
                            THEN "download" ELSE "except"]_vars

\* the filter has handed on the three dates of the window, both edges of
\* the window among them
C23_Witness ==
  \E j \in Created :
    /\ pc[j] = "download"
    /\ loc[j].dates =
         << <<"2","0","1","8","-","0","1","-","0","1">>,
            <<"2","0","2","0","-","0","2","-","1","8">>,
            <<"2","0","2","5","-","1","2","-","3","1">> >>

\* job a is at one of its two webhook sends and has a callback URL
AtSend(a) ==
  pc[a] \in {"webhook", "failure_webhook"} /\ db[a].callback_url # None

SendAttempted(j, event) == Event("send_webhook", j, 0, event) \in trace

\* C25: for one job at most one of the two terminal events is ever sent,
\* and it is the one of the job's status: job.completed is attempted only
\* for a job that is and stays COMPLETED, job.failed only for a FAILED one,
\* also when the job.completed send raises.
C25_OneTerminalEvent ==
  \A j \in Created :
    /\ ~(SendAttempted(j, "job.completed") /\ SendAttempted(j, "job.failed"))
    /\ SendAttempted(j, "job.completed") => db[j].status = COMPLETED
    /\ SendAttempted(j, "job.failed") => db[j].status = FAILED

\* the job.completed send of a COMPLETED job raised and the run has ended
\* without a job.failed send
C25_Witness ==
  \E j \in Created :
    /\ pc[j] = "done"
    /\ db[j].status = COMPLETED
    /\ SendAttempted(j, "job.completed")
    /\ CallSendWebhook({"url", "payload", "event"}).raised
    /\ ~SendAttempted(j, "job.failed")

\* C26: within one job no two descriptors name the same uploaded asset:
\* the descriptors a run has gathered, and those a job has stored, have
\* pairwise different image URLs, also for two dates of one calendar year.
C26_DistinctAssets ==
  \A j \in Created :
    \A ds \in {loc[j].results, Images(j)} :
      \A i \in 1..Len(ds) : \A k \in 1..Len(ds) :
        i # k => ds[i].imageUrl # ds[k].imageUrl

\* the working files the calls of job j's run have written, while the run
\* still holds its dates
Written(j) ==
  {TempFile(j, loc[j].dates[ev.k], "tif") :
     ev \in {x \in Calls(j, "download") : x.info = "ok"}}
  \cup
  {TempFile(j, loc[j].dates[ev.k], "png") :
     ev \in {x \in Calls(j, "convert") : x.info = "ok"}}

\* C27: cleanup_temp_files is called for a job only after the job has been
\* committed COMPLETED, never on a path that ends FAILED; the failure
\* handler and what follows it delete nothing, and when a run has failed
\* every raster and bitmap it wrote is still in the temp directory.
C27_NoCleanupOnFailure ==
  /\ [](\A j \in Created :
         Calls(j, "cleanup") # {} => db[j].status = COMPLETED)
  /\ [][\A j \in Created :
         pc[j] \in {"except", "failure_webhook", "finally"} /\ pc'[j] # pc[j]
           => files' = files]_vars
  /\ [](\A j \in Created :
         db[j].status = FAILED /\ pc[j] \in {"failure_webhook", "finally"}
           => Written(j) \subseteq files)

\* the second date of a run failed at the upload: the job is FAILED and the
\* raster and the bitmap of both dates are in the temp directory
C27_Witness ==
  \E j \in Created :
    /\ pc[j] = "finally"
    /\ db[j].status = FAILED
    /\ Event("upload", j, 2, "failed") \in trace
    /\ Cardinality(Written(j)) = 4
    /\ Written(j) \subseteq files
    /\ Calls(j, "cleanup") = {}

\* the run of job j has begun and has not returned
MidRun(j) == pc[j] \notin {"none", "scheduled", "done"}

\* C28: the runs of two jobs do not interleave: while the run of a job is
\* between its PROCESSING commit and its return, no other job takes a step,
\* so at most one run is under way at any time.
C28_RunsDoNotInterleave ==
  /\ [](Cardinality({j \in Jobs : MidRun(j)}) <= 1)
  /\ [][\A a \in Jobs : \A b \in Jobs \ {a} :
         MidRun(a) => pc'[b] = pc[b]]_vars

\* one run is in its per-date loop, past its first date, while another job
\* waits for the event loop
C28_Witness ==
  \E a \in Created : \E b \in Created \ {a} :
    /\ pc[a] = "upload"
    /\ pc[b] = "scheduled"
    /\ db[a].status = PROCESSING
    /\ db[b].status = QUEUED

====
